---- MODULE Spec2Model ----
(***************************************************************************)
(* A model of the codex-switcher core:                                     *)
(*   - auth/switcher.rs : switch_to_account, create_auth_json,             *)
(*                        import_from_auth_json, read_current_auth         *)
(*   - api/usage.rs     : get_account_usage, get_usage_with_chatgpt_token, *)
(*                        convert_payload_to_usage_info, refresh_all_usage *)
(*   - commands/usage.rs: get_usage, refresh_all_accounts_usage            *)
(*                                                                         *)
(* The specifications of the module, one per component:                    *)
(*   SwitcherSpec  the credential file and the calls that touch it         *)
(*   UsageSpec     one usage command (single or batch) against a remote    *)
(*   UsageFairSpec UsageSpec with the executor's fairness                  *)
(*   ConvertSpec   convert_payload_to_usage_info on bounded payloads       *)
(***************************************************************************)
EXTENDS Integers, Sequences

VARIABLES
    \* ---- file system and switcher (auth/switcher.rs)
    dirExists,      \* the codex home directory exists
    fileExists,     \* <codex home>/auth.json exists
    fileContent,    \* its text (a well-formed JSON value, or torn bytes)
    fileMode,       \* its permission bits, as a set
    pc,             \* position inside switch_to_account: idle, write, chmod
    sw,             \* the running switch_to_account: its account and the AuthDotJson built
    ret,            \* the most recent call of the switcher and what it returned
    lastOk,         \* history: the document of the last switch that returned Ok
    \* ---- usage fetcher (api/usage.rs, commands/usage.rs)
    store,          \* the loaded account list (a sequence of StoredAccount)
    cmd,            \* the running command: none, get_usage, refresh_all, returned
    target,         \* the accounts whose future the command drives
    fut,            \* per account: the state of its get_account_usage future
    slots,          \* join_all's output slots, one per future
    hung,           \* accounts whose remote endpoint never answers
    cmdResult,      \* what the command returned
    \* ---- payload conversion (api/usage.rs)
    convIn,         \* a RateLimitStatusPayload
    convOut         \* the UsageInfo convert_payload_to_usage_info made of it

switcherVars == <<dirExists, fileExists, fileContent, fileMode, pc, sw, ret, lastOk>>
usageVars == <<store, cmd, target, fut, slots, hung, cmdResult>>
convVars == <<convIn, convOut>>
vars == <<switcherVars, usageVars, convVars>>

(***************************************************************************)
(* Option and Result                                                       *)
(***************************************************************************)
None == [some |-> FALSE]
Some(x) == [some |-> TRUE, v |-> x]
Ok(x) == [ok |-> TRUE, v |-> x]
Err(e) == [ok |-> FALSE, err |-> e]
Unit == "()"
\* an anyhow::Error: the context put on it and the error beneath; to_string()
\* prints the context alone
AnyhowErr(context, source) == [context |-> context, source |-> source]
to_string(e) == e.context
\* Result::map_err(|e| e.to_string())
MapErrToString(res) == IF res.ok THEN res ELSE Err(to_string(res.err))

(***************************************************************************)
(* Bounds                                                                  *)
(***************************************************************************)
\* Utc::now() is drawn from 1..MaxTime
MaxTime == 2
\* the account store holds at most MaxAccounts accounts
MaxAccounts == 3
\* window lengths 0..MaxSeconds are enumerated (plus the extremes of the type)
MaxSeconds == 130

(***************************************************************************)
(* Credential model (crate::types, used by switcher.rs)                    *)
(***************************************************************************)
Keys == {"sk-1", "sk-2"}
\* "x.y" has two parts; "h.p.s" is a three-part token with a JSON payload
IdTokens == {"x.y", "h.p.s"}
\* "at\n2" holds a control character: not a legal HTTP header value
AccessTokens == {"at1", "at\n2"}
RefreshTokens == {"rt1"}
AccountIds == {None, Some("org1")}
Times == 1..MaxTime

ApiKeyAuth(key) == [tag |-> "ApiKey", key |-> key]
ChatGPTAuth(id_token, access_token, refresh_token, account_id) ==
    [tag |-> "ChatGPT", id_token |-> id_token, access_token |-> access_token,
     refresh_token |-> refresh_token, account_id |-> account_id]

AuthDatas ==
    {ApiKeyAuth(k) : k \in Keys} \cup
    {ChatGPTAuth(i, a, r, acc) :
        i \in IdTokens, a \in AccessTokens, r \in RefreshTokens, acc \in AccountIds}

StoredAccount(id, name, email, plan_type, auth_data) ==
    [id |-> id, name |-> name, email |-> email, plan_type |-> plan_type,
     auth_data |-> auth_data]

\* the accounts switch_to_account is called with
Accounts == {StoredAccount("id-1", "work", None, None, a) : a \in AuthDatas}

new_api_key(name, key) ==
    StoredAccount("new-id", name, None, None, ApiKeyAuth(key))
new_chatgpt(name, email, plan_type, id_token, access_token, refresh_token, account_id) ==
    StoredAccount("new-id", name, email, plan_type,
                  ChatGPTAuth(id_token, access_token, refresh_token, account_id))

TokenData(id_token, access_token, refresh_token, account_id) ==
    [id_token |-> id_token, access_token |-> access_token,
     refresh_token |-> refresh_token, account_id |-> account_id]
AuthDotJson(openai_api_key, tokens, last_refresh) ==
    [openai_api_key |-> openai_api_key, tokens |-> tokens, last_refresh |-> last_refresh]

(***************************************************************************)
(* create_auth_json                                                        *)
(***************************************************************************)
\* a slip that stamps last_refresh on every document
create_auth_json_stamp_all(account, now) ==
    IF account.auth_data.tag = "ApiKey"
    THEN AuthDotJson(Some(account.auth_data.key), None, Some(now))
    ELSE AuthDotJson(None,
                     Some(TokenData(account.auth_data.id_token,
                                    account.auth_data.access_token,
                                    account.auth_data.refresh_token,
                                    account.auth_data.account_id)),
                     Some(now))

create_auth_json(account, now) ==
    IF account.auth_data.tag = "ApiKey"
    THEN AuthDotJson(Some(account.auth_data.key), None, None)
    ELSE AuthDotJson(None,
                     Some(TokenData(account.auth_data.id_token,
                                    account.auth_data.access_token,
                                    account.auth_data.refresh_token,
                                    account.auth_data.account_id)),
                     Some(now))

(***************************************************************************)
(* JSON text: serde_json::to_string_pretty and serde_json::from_str        *)
(***************************************************************************)
JNull == [j |-> "null"]
JStr(s) == [j |-> "string", s |-> s]
JTime(t) == [j |-> "string", rfc3339 |-> t]
JObj(f) == [j |-> "object", fields |-> f]
\* text that is a JSON value, and text that is not (a torn or foreign file)
Text(json) == [wf |-> TRUE, json |-> json]
Torn == [wf |-> FALSE]
NoContent == [wf |-> FALSE, absent |-> TRUE]

JOptStr(o) == IF o.some THEN JStr(o.v) ELSE JNull
JOptTime(o) == IF o.some THEN JTime(o.v) ELSE JNull
JTokens(t) ==
    JObj([id_token |-> JStr(t.id_token), access_token |-> JStr(t.access_token),
          refresh_token |-> JStr(t.refresh_token), account_id |-> JOptStr(t.account_id)])

\* serde_json::to_string_pretty(&auth_json); an absent Option is written as
\* null here, and FromJson reads null and a missing key alike
ToJson(auth) ==
    Text(JObj([openai_api_key |-> JOptStr(auth.openai_api_key),
               tokens |-> IF auth.tokens.some THEN JTokens(auth.tokens.v) ELSE JNull,
               last_refresh |-> JOptTime(auth.last_refresh)]))

\* a key that is missing reads as null
Field(obj, k) == IF k \in DOMAIN obj.fields THEN obj.fields[k] ELSE JNull
IsStr(v) == v.j = "string" /\ "s" \in DOMAIN v
IsTime(v) == v.j = "string" /\ "rfc3339" \in DOMAIN v
IsOptStr(v) == v = JNull \/ IsStr(v)
FromJOptStr(v) == IF v = JNull THEN None ELSE Some(v.s)
FromJOptTime(v) == IF v = JNull THEN None ELSE Some(v.rfc3339)
IsTokens(v) ==
    /\ v.j = "object"
    /\ IsStr(Field(v, "id_token"))
    /\ IsStr(Field(v, "access_token"))
    /\ IsStr(Field(v, "refresh_token"))
    /\ IsOptStr(Field(v, "account_id"))
FromJTokens(v) ==
    TokenData(Field(v, "id_token").s, Field(v, "access_token").s,
              Field(v, "refresh_token").s, FromJOptStr(Field(v, "account_id")))

\* serde_json::from_str::<AuthDotJson>(&content)
FromJson(content) ==
    IF ~content.wf THEN Err("parse")
    ELSE IF content.json.j # "object" THEN Err("parse")
    ELSE LET k == Field(content.json, "openai_api_key")
             t == Field(content.json, "tokens")
             r == Field(content.json, "last_refresh")
         IN  IF /\ IsOptStr(k)
                /\ (t = JNull \/ IsTokens(t))
                /\ (r = JNull \/ IsTime(r))
             THEN Ok(AuthDotJson(FromJOptStr(k),
                                 IF t = JNull THEN None ELSE Some(FromJTokens(t)),
                                 FromJOptTime(r)))
             ELSE Err("parse")

(***************************************************************************)
(* parse_id_token_claims: the decoded payload of the id tokens above       *)
(***************************************************************************)
parse_id_token_claims(id_token) ==
    IF id_token = "h.p.s"
    THEN <<Some("u@x.com"), Some("pro")>>
    ELSE <<None, None>>

(***************************************************************************)
(* import_from_auth_json, from the text read at `path`                     *)
(***************************************************************************)
\* a slip that looks at tokens before the API key
import_prefers_tokens(read, account_name) ==
    IF ~read.ok THEN Err("Failed to read auth.json")
    ELSE LET auth == FromJson(read.v)
         IN  IF ~auth.ok THEN Err("Failed to parse auth.json")
             ELSE IF auth.v.tokens.some
             THEN LET tokens == auth.v.tokens.v
                      claims == parse_id_token_claims(tokens.id_token)
                  IN  Ok(new_chatgpt(account_name, claims[1], claims[2],
                                     tokens.id_token, tokens.access_token,
                                     tokens.refresh_token, tokens.account_id))
             ELSE IF auth.v.openai_api_key.some
             THEN Ok(new_api_key(account_name, auth.v.openai_api_key.v))
             ELSE Err("auth.json contains neither API key nor tokens")

\* a slip that passes the token fields on in the wrong order and drops account_id
import_scrambles_tokens(read, account_name) ==
    IF ~read.ok THEN Err("Failed to read auth.json")
    ELSE LET auth == FromJson(read.v)
         IN  IF ~auth.ok THEN Err("Failed to parse auth.json")
             ELSE IF auth.v.openai_api_key.some
             THEN Ok(new_api_key(account_name, auth.v.openai_api_key.v))
             ELSE IF auth.v.tokens.some
             THEN LET tokens == auth.v.tokens.v
                      claims == parse_id_token_claims(tokens.id_token)
                  IN  Ok(new_chatgpt(account_name, claims[1], claims[2],
                                     tokens.id_token, tokens.refresh_token,
                                     tokens.access_token, None))
             ELSE Err("auth.json contains neither API key nor tokens")

import_from_auth_json(read, account_name) ==
    IF ~read.ok THEN Err("Failed to read auth.json")
    ELSE LET auth == FromJson(read.v)
         IN  IF ~auth.ok THEN Err("Failed to parse auth.json")
             ELSE IF auth.v.openai_api_key.some
             THEN Ok(new_api_key(account_name, auth.v.openai_api_key.v))
             ELSE IF auth.v.tokens.some
             THEN LET tokens == auth.v.tokens.v
                      claims == parse_id_token_claims(tokens.id_token)
                  IN  Ok(new_chatgpt(account_name, claims[1], claims[2],
                                     tokens.id_token, tokens.access_token,
                                     tokens.refresh_token, tokens.account_id))
             ELSE Err("auth.json contains neither API key nor tokens")

(***************************************************************************)
(* File permissions                                                        *)
(***************************************************************************)
OwnerBits == {"ur", "uw"}
GroupOtherBits == {"gr", "gw", "or", "ow"}
\* fs::Permissions::from_mode(0o600)
Mode0600 == {"ur", "uw"}
\* the mode File::create asks for (0o666) before the umask is applied
CreateMode == OwnerBits \cup GroupOtherBits
\* the process umask: 022, 077, 002
Umasks == {{"gw", "ow"}, GroupOtherBits, {"ow"}}
\* modes a file left by another writer may have: 0600, 0644, 0666
ForeignModes == {Mode0600, {"ur", "uw", "gr", "or"}, CreateMode}

\* documents other tools may have left at a path (keys may be missing)
ApiOnlyText == Text(JObj([openai_api_key |-> JStr("sk-ext")]))
TokensOnlyText ==
    Text(JObj([tokens |-> JObj([id_token |-> JStr("h.p.s"), access_token |-> JStr("at1"),
                                 refresh_token |-> JStr("rt1")])]))
BothText ==
    Text(JObj([openai_api_key |-> JStr("sk-ext"),
               tokens |-> JObj([id_token |-> JStr("x.y"), access_token |-> JStr("at1"),
                                refresh_token |-> JStr("rt1"),
                                account_id |-> JStr("org1")]),
               last_refresh |-> JTime(1)]))
NeitherText == Text(JObj([last_refresh |-> JNull]))
ForeignTexts == {ApiOnlyText, TokensOnlyText, BothText, NeitherText, Torn}

NoRet == [op |-> "none"]

(***************************************************************************)
(* switch_to_account, one step per file-system call                        *)
(***************************************************************************)
SwitchRet(result) == [op |-> "switch_to_account", result |-> result]

\* get_codex_home, create_dir_all, create_auth_json, to_string_pretty
\* (serialising an AuthDotJson of strings and a timestamp has no failing case)
SwitchBegin(account, now) ==
    /\ pc = "idle"
    /\ \/ /\ ret' = SwitchRet(Err("Could not find home directory"))
          /\ UNCHANGED <<dirExists, pc, sw>>
       \/ /\ ~dirExists
          /\ ret' = SwitchRet(Err("Failed to create codex home"))
          /\ UNCHANGED <<dirExists, pc, sw>>
       \/ /\ dirExists' = TRUE
          /\ sw' = Some([account |-> account, auth_json |-> create_auth_json(account, now)])
          /\ pc' = "write"
          /\ ret' = NoRet
    /\ UNCHANGED <<fileExists, fileContent, fileMode, lastOk, usageVars, convVars>>

\* the permission bits after fs::write opened the file with O_CREAT|O_TRUNC
ModeAfterOpen(umask) == IF fileExists THEN fileMode ELSE CreateMode \ umask

\* fs::write(&auth_path, content)
SwitchWrite ==
    /\ pc = "write"
    /\ \/ \* the open fails: nothing is touched
          /\ ret' = SwitchRet(Err("Failed to write auth.json"))
          /\ pc' = "idle"
          /\ sw' = None
          /\ UNCHANGED <<fileExists, fileContent, fileMode>>
       \/ \* the file is created or truncated, then write_all fails
          /\ \E umask \in Umasks : fileMode' = ModeAfterOpen(umask)
          /\ fileExists' = TRUE
          /\ fileContent' = Torn
          /\ ret' = SwitchRet(Err("Failed to write auth.json"))
          /\ pc' = "idle"
          /\ sw' = None
       \/ \* the whole text is written
          /\ \E umask \in Umasks : fileMode' = ModeAfterOpen(umask)
          /\ fileExists' = TRUE
          /\ fileContent' = ToJson(sw.v.auth_json)
          /\ pc' = "chmod"
          /\ UNCHANGED <<ret, sw>>
    /\ UNCHANGED <<dirExists, lastOk, usageVars, convVars>>

\* fs::set_permissions(&auth_path, from_mode(0o600))?; Ok(())
SwitchSetPermissions ==
    /\ pc = "chmod"
    /\ \/ /\ fileMode' = Mode0600
          /\ ret' = SwitchRet(Ok(Unit))
          /\ lastOk' = Some(sw.v.auth_json)
       \/ /\ ret' = SwitchRet(Err("set_permissions"))
          /\ UNCHANGED <<fileMode, lastOk>>
    /\ pc' = "idle"
    /\ sw' = None
    /\ UNCHANGED <<dirExists, fileExists, fileContent, usageVars, convVars>>

(***************************************************************************)
(* import_from_auth_json and read_current_auth as calls                    *)
(***************************************************************************)
\* fs::read_to_string of the credential file
ReadAuthFile == IF fileExists THEN Ok(fileContent) ELSE Err("read")

\* import_from_auth_json(<the credential file>, name)
ImportAuthFile ==
    /\ pc = "idle"
    /\ ret' = [op |-> "import_from_auth_json", read |-> ReadAuthFile,
               result |-> import_from_auth_json(ReadAuthFile, "imported")]
    /\ UNCHANGED <<dirExists, fileExists, fileContent, fileMode, pc, sw, lastOk,
                   usageVars, convVars>>

\* import_from_auth_json(<some other path>, name)
ImportForeign(read) ==
    /\ pc = "idle"
    /\ ret' = [op |-> "import_from_auth_json", read |-> read,
               result |-> import_from_auth_json(read, "imported")]
    /\ UNCHANGED <<dirExists, fileExists, fileContent, fileMode, pc, sw, lastOk,
                   usageVars, convVars>>

\* read_current_auth once the path is resolved and the file, if any, is read
read_current_auth ==
    IF ~fileExists THEN Ok(None)
    ELSE LET auth == FromJson(fileContent)
         IN  IF auth.ok THEN Ok(Some(auth.v)) ELSE Err("Failed to parse auth.json")

ReadCurrentAuth ==
    /\ pc = "idle"
    /\ \/ ret' = [op |-> "read_current_auth",
                  result |-> Err("Could not find home directory")]
       \/ /\ fileExists
          /\ ret' = [op |-> "read_current_auth", result |-> Err("Failed to read auth.json")]
       \/ ret' = [op |-> "read_current_auth", result |-> read_current_auth]
    /\ UNCHANGED <<dirExists, fileExists, fileContent, fileMode, pc, sw, lastOk,
                   usageVars, convVars>>

SwitcherNext ==
    \/ \E account \in Accounts, now \in Times : SwitchBegin(account, now)
    \/ SwitchWrite
    \/ SwitchSetPermissions
    \/ ImportAuthFile
    \/ \E read \in {Ok(c) : c \in ForeignTexts} \cup {Err("read")} : ImportForeign(read)
    \/ ReadCurrentAuth

(***************************************************************************)
(* Usage records (crate::types) and convert_payload_to_usage_info          *)
(***************************************************************************)
\* limit_window_seconds is an i32 that the code widens with i64::from
I32Max == (2^30 - 1) + 2^30
I32Min == -I32Max - 1
\* 64-bit values are kept as two limbs, value = hi * Limb + lo, 0 <= lo < Limb
Limb == 2^16
I64From(s) == [hi |-> s \div Limb, lo |-> s % Limb]
I64Add(x, k) ==
    LET t == x.lo + k
    IN  [hi |-> x.hi + (t \div Limb), lo |-> t % Limb]
\* Rust's `/` on i64: the quotient truncated toward zero
I64Div(x, d) ==
    LET rest == ((x.hi % d) * Limb) + x.lo
        floor == ((x.hi \div d) * Limb) + (rest \div d)
    IN  IF x.hi < 0 /\ rest % d # 0 THEN floor + 1 ELSE floor

\* a slip that divides without rounding up
WindowMinutesFloor(s) == I64Div(I64From(s), 60)

\* |s| (i64::from(s) + 59) / 60
WindowMinutes(s) == I64Div(I64Add(I64From(s), 59), 60)

RateLimitWindow(used_percent, limit_window_seconds, reset_at) ==
    [used_percent |-> used_percent, limit_window_seconds |-> limit_window_seconds,
     reset_at |-> reset_at]
RateLimitDetails(primary_window, secondary_window) ==
    [primary_window |-> primary_window, secondary_window |-> secondary_window]
CreditStatusDetails(has_credits, unlimited, balance) ==
    [has_credits |-> has_credits, unlimited |-> unlimited, balance |-> balance]
RateLimitStatusPayload(plan_type, rate_limit, credits) ==
    [plan_type |-> plan_type, rate_limit |-> rate_limit, credits |-> credits]

UsageInfo(account_id, plan_type, pu, pm, pr, su, sm, sr, hc, uc, cb, error) ==
    [account_id |-> account_id, plan_type |-> plan_type,
     primary_used_percent |-> pu, primary_window_minutes |-> pm, primary_resets_at |-> pr,
     secondary_used_percent |-> su, secondary_window_minutes |-> sm,
     secondary_resets_at |-> sr,
     has_credits |-> hc, unlimited_credits |-> uc, credits_balance |-> cb,
     error |-> error]

\* UsageInfo::error(account_id, message)
UsageInfoError(account_id, message) ==
    UsageInfo(account_id, None, None, None, None, None, None, None, None, None, None,
              Some(message))

\* primary.as_ref().map(|w| w.used_percent)
WindowUsedPercent(w) == IF w.some THEN Some(w.v.used_percent) ELSE None
\* primary.as_ref().and_then(|w| w.limit_window_seconds).map(|s| ...)
WindowMinutesOf(w) ==
    LET seconds == IF w.some THEN w.v.limit_window_seconds ELSE None
    IN  IF seconds.some THEN Some(WindowMinutes(seconds.v)) ELSE None
\* primary.as_ref().and_then(|w| w.reset_at)
WindowResetsAt(w) == IF w.some THEN w.v.reset_at ELSE None

extract_rate_limits(rate_limit) ==
    IF rate_limit.some
    THEN <<rate_limit.v.primary_window, rate_limit.v.secondary_window>>
    ELSE <<None, None>>

extract_credits(credits) == credits

convert_payload_to_usage_info(account_id, payload) ==
    LET limits == extract_rate_limits(payload.rate_limit)
        primary == limits[1]
        secondary == limits[2]
        credits == extract_credits(payload.credits)
    IN  UsageInfo(account_id, Some(payload.plan_type),
                  WindowUsedPercent(primary),
                  WindowMinutesOf(primary),
                  WindowResetsAt(primary),
                  WindowUsedPercent(secondary),
                  WindowMinutesOf(secondary),
                  WindowResetsAt(secondary),
                  IF credits.some THEN Some(credits.v.has_credits) ELSE None,
                  IF credits.some THEN Some(credits.v.unlimited) ELSE None,
                  IF credits.some THEN credits.v.balance ELSE None,
                  None)

(***************************************************************************)
(* ConvertSpec: the conversion applied to bounded payloads                 *)
(***************************************************************************)
SecondsSamples ==
    (0..MaxSeconds) \cup {I32Max - 60, I32Max - 59, I32Max - 58, I32Max - 1, I32Max}
                    \cup {-1, -61, I32Min}
OptSeconds == {None} \cup {Some(s) : s \in SecondsSamples}
ConvWindows == {None} \cup {Some(RateLimitWindow(10, s, None)) : s \in OptSeconds}
ConvPayloads ==
    {RateLimitStatusPayload("plus", None, None)} \cup
    {RateLimitStatusPayload("plus", Some(RateLimitDetails(p, q)), None) :
        p \in ConvWindows, q \in ConvWindows}

Convert ==
    /\ convOut = None
    /\ convOut' = Some(convert_payload_to_usage_info("id-1", convIn))
    /\ UNCHANGED <<convIn, switcherVars, usageVars>>

(***************************************************************************)
(* Usage fetcher: the account store and the remote                         *)
(***************************************************************************)
UsageAuths ==
    {ApiKeyAuth("sk-1"),
     ChatGPTAuth("x.y", "at1", "rt1", Some("org1")),
     ChatGPTAuth("x.y", "at\n2", "rt1", None)}
\* the account at position i of the store has id i
Stores ==
    UNION {{[i \in 1..n |-> StoredAccount(i, "acct", None, None, f[i])] :
               f \in [1..n -> UsageAuths]} : n \in 0..MaxAccounts}

\* HeaderValue::from_str(&format!("Bearer {access_token}")).is_ok()
HeaderValueOk(access_token) == access_token \notin {"at\n2"}

HttpStatuses == {200, 429}
\* status.is_success()
IsSuccess(status) == status >= 200 /\ status < 300

UsagePayload ==
    RateLimitStatusPayload("plus",
        Some(RateLimitDetails(Some(RateLimitWindow(25, Some(18001), Some(7))), None)),
        Some(CreditStatusDetails(TRUE, FALSE, Some(5))))
\* response bodies: the JSON of a payload, or text that is no payload
Bodies == {[wf |-> TRUE, payload |-> UsagePayload], [wf |-> FALSE]}
\* serde_json::from_str::<RateLimitStatusPayload>(&body_text)
ParsePayload(body) == IF body.wf THEN Ok(body.payload) ELSE Err("parse")

\* a slip that reports an API-key account as an empty success
ApiKeyUsageNoError(account) ==
    UsageInfo(account.id, Some("api_key"), None, None, None, None, None, None,
              None, None, None, None)

ApiKeyUsage(account) ==
    UsageInfo(account.id, Some("api_key"), None, None, None, None, None, None,
              None, None, None, Some("Usage info not available for API key accounts"))

\* the accounts whose fetch reaches client.get(..).send()
SendsRequest(account) ==
    /\ account.auth_data.tag = "ChatGPT"
    /\ HeaderValueOk(account.auth_data.access_token)

\* the async block of refresh_all_usage: an Err becomes an error record
\* a slip that keeps the record of a failed fetch without its error
BatchEntryDropsError(account, res) ==
    IF res.ok THEN res.v
    ELSE UsageInfo(account.id, None, None, None, None, None, None, None, None, None,
                   None, None)

BatchEntry(account, res) ==
    IF res.ok THEN res.v ELSE UsageInfoError(account.id, to_string(res.err))

\* join_all keeps one output slot per future, filled when that future completes
\* a slip that collects the outputs in completion order
JoinAllStoreInCompletionOrder(s, i, out) ==
    LET free == {j \in DOMAIN s : ~s[j].some}
        k == CHOOSE j \in free : \A m \in free : j <= m
    IN  [s EXCEPT ![k] = Some(out)]

JoinAllStore(s, i, out) == [s EXCEPT ![i] = Some(out)]

\* which pending futures the executor may poll
\* a slip that awaits the futures one after the other
PollableInOrder(i) == i \in target /\ \A j \in target : j < i => fut[j].pc = "done"

Pollable(i) == i \in target

Running == cmd \in {"get_usage", "refresh_all"}

\* the future of account i completes with `res`
Complete(i, res, cause) ==
    /\ fut' = [fut EXCEPT ![i] = [pc |-> "done", res |-> res, cause |-> cause]]
    /\ slots' = IF cmd = "refresh_all"
                THEN JoinAllStore(slots, i, BatchEntry(store[i], res))
                ELSE slots

\* get_account_usage up to the first await
FetchBegin(i) ==
    /\ Running /\ Pollable(i)
    /\ fut[i].pc = "init"
    /\ LET account == store[i]
       IN  \/ /\ account.auth_data.tag = "ApiKey"
              /\ Complete(i, Ok(ApiKeyUsage(account)), "api_key")
           \/ /\ account.auth_data.tag = "ChatGPT"
              /\ ~HeaderValueOk(account.auth_data.access_token)
              /\ Complete(i, Err(AnyhowErr("Invalid access token", "InvalidHeaderValue")),
                          "bad_token")
           \/ /\ account.auth_data.tag = "ChatGPT"
              /\ HeaderValueOk(account.auth_data.access_token)
              /\ fut' = [fut EXCEPT ![i] = [pc |-> "send"]]
              /\ UNCHANGED slots
    /\ UNCHANGED <<store, cmd, target, hung, cmdResult, switcherVars, convVars>>

\* client.get(..).send().await fails
SendFails(i) ==
    /\ Running /\ Pollable(i)
    /\ fut[i].pc = "send"
    /\ i \notin hung
    /\ Complete(i, Err(AnyhowErr("Failed to send usage request", "reqwest::Error")), "send")
    /\ UNCHANGED <<store, cmd, target, hung, cmdResult, switcherVars, convVars>>

\* client.get(..).send().await yields a response
Respond(i, status) ==
    /\ Running /\ Pollable(i)
    /\ fut[i].pc = "send"
    /\ i \notin hung
    /\ fut' = [fut EXCEPT ![i] =
                 IF IsSuccess(status) THEN [pc |-> "body"]
                 ELSE [pc |-> "errbody", status |-> status]]
    /\ UNCHANGED <<store, cmd, target, slots, hung, cmdResult, switcherVars, convVars>>

\* response.text().await.unwrap_or_default(); return Ok(UsageInfo::error(..))
ErrorBody(i) ==
    /\ Running /\ Pollable(i)
    /\ fut[i].pc = "errbody"
    /\ Complete(i, Ok(UsageInfoError(store[i].id, <<"API error: ", fut[i].status>>)),
                "status")
    /\ UNCHANGED <<store, cmd, target, hung, cmdResult, switcherVars, convVars>>

\* response.text().await fails
BodyFails(i) ==
    /\ Running /\ Pollable(i)
    /\ fut[i].pc = "body"
    /\ Complete(i, Err(AnyhowErr("Failed to read response body", "reqwest::Error")), "body")
    /\ UNCHANGED <<store, cmd, target, hung, cmdResult, switcherVars, convVars>>

\* response.text().await yields the body; parse and convert
BodyArrives(i, body) ==
    /\ Running /\ Pollable(i)
    /\ fut[i].pc = "body"
    /\ LET payload == ParsePayload(body)
       IN  IF payload.ok
           THEN Complete(i, Ok(convert_payload_to_usage_info(store[i].id, payload.v)), "ok")
           ELSE Complete(i, Err(AnyhowErr("Failed to parse usage response",
                                          "serde_json::Error")), "parse")
    /\ UNCHANGED <<store, cmd, target, hung, cmdResult, switcherVars, convVars>>

FetchStep(i) ==
    \/ FetchBegin(i)
    \/ SendFails(i)
    \/ \E status \in HttpStatuses : Respond(i, status)
    \/ ErrorBody(i)
    \/ BodyFails(i)
    \/ \E body \in Bodies : BodyArrives(i, body)

(***************************************************************************)
(* The commands (commands/usage.rs)                                        *)
(***************************************************************************)
CmdRet(op, arg, result) == [op |-> op, arg |-> arg, result |-> result]

\* get_usage(account_id): get_account(), then the fetch is awaited
GetUsage(account_id) ==
    /\ cmd = "none"
    /\ \/ /\ cmd' = "returned"
          /\ cmdResult' = CmdRet("get_usage", account_id, Err("storage"))
          /\ UNCHANGED target
       \/ /\ account_id \notin DOMAIN store
          /\ cmd' = "returned"
          /\ cmdResult' = CmdRet("get_usage", account_id, Err("Account not found"))
          /\ UNCHANGED target
       \/ /\ account_id \in DOMAIN store
          /\ cmd' = "get_usage"
          /\ target' = {account_id}
          /\ UNCHANGED cmdResult
    /\ UNCHANGED <<store, fut, slots, hung, switcherVars, convVars>>

\* get_account_usage(&account).await.map_err(|e| e.to_string())
GetUsageReturn ==
    /\ cmd = "get_usage"
    /\ \E i \in target :
          /\ fut[i].pc = "done"
          /\ cmdResult' = CmdRet("get_usage", i, MapErrToString(fut[i].res))
    /\ cmd' = "returned"
    /\ UNCHANGED <<store, target, fut, slots, hung, switcherVars, convVars>>

\* refresh_all_accounts_usage(): load_accounts(), then refresh_all_usage
RefreshAll ==
    /\ cmd = "none"
    /\ \/ /\ cmd' = "returned"
          /\ cmdResult' = CmdRet("refresh_all", Unit, Err("storage"))
          /\ UNCHANGED target
       \/ /\ cmd' = "refresh_all"
          /\ target' = DOMAIN store
          /\ UNCHANGED cmdResult
    /\ UNCHANGED <<store, fut, slots, hung, switcherVars, convVars>>

\* join_all(futures).await is ready once every slot is filled
RefreshAllReturn ==
    /\ cmd = "refresh_all"
    /\ \A i \in DOMAIN slots : slots[i].some
    /\ cmdResult' = CmdRet("refresh_all", Unit, Ok([i \in DOMAIN slots |-> slots[i].v]))
    /\ cmd' = "returned"
    /\ UNCHANGED <<store, target, fut, slots, hung, switcherVars, convVars>>

UsageNext ==
    \/ \E account_id \in 1..(MaxAccounts + 1) : GetUsage(account_id)
    \/ GetUsageReturn
    \/ RefreshAll
    \/ RefreshAllReturn
    \/ \E i \in 1..MaxAccounts : FetchStep(i)

(***************************************************************************)
(* Specifications                                                          *)
(***************************************************************************)
\* the switcher starts idle, beside whatever another writer left on disk
SwitcherInit ==
    /\ dirExists \in BOOLEAN
    /\ fileExists \in (IF dirExists THEN BOOLEAN ELSE {FALSE})
    /\ fileContent \in (IF fileExists THEN ForeignTexts ELSE {NoContent})
    /\ fileMode \in (IF fileExists THEN ForeignModes ELSE {{}})
    /\ pc = "idle"
    /\ sw = None
    /\ ret = NoRet
    /\ lastOk = None
    /\ store = <<>>
    /\ cmd = "none"
    /\ target = {}
    /\ fut = <<>>
    /\ slots = <<>>
    /\ hung = {}
    /\ cmdResult = NoRet
    /\ convIn = RateLimitStatusPayload("plus", None, None)
    /\ convOut = None

SwitcherSpec == SwitcherInit /\ [][SwitcherNext]_vars

\* a loaded store, no command running yet, and a remote that may hang
UsageInit ==
    /\ store \in Stores
    /\ cmd = "none"
    /\ target = {}
    /\ fut = [i \in DOMAIN store |-> [pc |-> "init"]]
    /\ slots = [i \in DOMAIN store |-> None]
    /\ hung \in SUBSET {i \in DOMAIN store : SendsRequest(store[i])}
    /\ cmdResult = NoRet
    /\ dirExists = FALSE
    /\ fileExists = FALSE
    /\ fileContent = NoContent
    /\ fileMode = {}
    /\ pc = "idle"
    /\ sw = None
    /\ ret = NoRet
    /\ lastOk = None
    /\ convIn = RateLimitStatusPayload("plus", None, None)
    /\ convOut = None

UsageSpec == UsageInit /\ [][UsageNext]_vars

\* the executor polls every future that can make progress, a remote that is
\* not hung answers, and a command whose futures are done returns
UsageFairness ==
    /\ \A i \in 1..MaxAccounts : WF_vars(FetchStep(i))
    /\ WF_vars(GetUsageReturn)
    /\ WF_vars(RefreshAllReturn)

UsageFairSpec == UsageInit /\ [][UsageNext]_vars /\ UsageFairness

ConvertInit ==
    /\ convIn \in ConvPayloads
    /\ convOut = None
    /\ store = <<>>
    /\ cmd = "none"
    /\ target = {}
    /\ fut = <<>>
    /\ slots = <<>>
    /\ hung = {}
    /\ cmdResult = NoRet
    /\ dirExists = FALSE
    /\ fileExists = FALSE
    /\ fileContent = NoContent
    /\ fileMode = {}
    /\ pc = "idle"
    /\ sw = None
    /\ ret = NoRet
    /\ lastOk = None

ConvertNext == Convert

ConvertSpec == ConvertInit /\ [][ConvertNext]_vars

(***************************************************************************)
(* Properties                                                              *)
(***************************************************************************)
\* the futures that ran to completion
Done(i) == i \in DOMAIN fut /\ fut[i].pc = "done"
\* the ways a fetch ends in Err, and the ways it ends in Ok
FailCauses == {"bad_token", "send", "body", "parse"}
\* the message each of them carries
FailMessage(cause) ==
    CASE cause = "bad_token" -> "Invalid access token"
      [] cause = "send" -> "Failed to send usage request"
      [] cause = "body" -> "Failed to read response body"
      [] cause = "parse" -> "Failed to parse usage response"
CapturedCauses == {"api_key", "status"}
\* get_usage returned what the fetch of its account produced
ReturnedFetchOf(i) ==
    /\ cmd = "returned"
    /\ cmdResult.op = "get_usage"
    /\ cmdResult.arg = i
    /\ Done(i)
BatchReturned ==
    /\ cmd = "returned"
    /\ cmdResult.op = "refresh_all"
    /\ cmdResult.result.ok

C2_NeverLooserThan0600 ==
    /\ pc = "chmod" => fileMode \subseteq Mode0600
    /\ (pc = "idle" /\ ret = [op |-> "switch_to_account",
                               result |-> Err("set_permissions")])
          => fileMode \subseteq Mode0600
    /\ (pc = "idle" /\ ret = [op |-> "switch_to_account", result |-> Ok(Unit)])
          => fileMode \cap GroupOtherBits = {}

\* C3: the batch over N accounts returns N records, record i carrying the id
\* of account i, whatever the order in which the fetches complete; while the
\* batch runs every filled slot already belongs to its own account.
C3_BatchKeepsInputOrder ==
    /\ cmd = "refresh_all" =>
          \A i \in DOMAIN slots :
              slots[i].some => slots[i].v.account_id = store[i].id
    /\ BatchReturned =>
          /\ DOMAIN cmdResult.result.v = 1..Len(store)
          /\ \A i \in 1..Len(store) : cmdResult.result.v[i].account_id = store[i].id

\* C3 witness: a later account completed while an earlier one is in flight
C3_Witness ==
    /\ cmd = "refresh_all"
    /\ Len(store) >= 2
    /\ \E i, j \in DOMAIN slots :
          /\ i < j
          /\ fut[i].pc = "send"
          /\ slots[j].some
          /\ slots[j].v.account_id = store[j].id

C5_DocumentShape ==
    sw.some =>
        LET a == sw.v.account.auth_data
            d == sw.v.auth_json
        IN  /\ d.openai_api_key.some # d.tokens.some
            /\ d.last_refresh.some = d.tokens.some
            /\ a.tag = "ApiKey" =>
                  (d.openai_api_key = Some(a.key) /\ ~d.tokens.some /\ ~d.last_refresh.some)
            /\ a.tag = "ChatGPT" =>
                  (d.tokens.some /\ ~d.openai_api_key.some /\ d.last_refresh.some)
            /\ pc = "chmod" => fileContent = ToJson(d)

\* C5 witness: the document of an ApiKey account has been written
C5_Witness ==
    /\ pc = "chmod"
    /\ sw.some
    /\ sw.v.account.auth_data.tag = "ApiKey"
    /\ sw.v.auth_json.openai_api_key.some

\* C6: importing the text of the document built for an account (with any
\* timestamp) gives an account of the same variant with the same key, or the
\* same id_token, access_token, refresh_token and account_id.
C6_RoundTrip ==
    \A a \in Accounts, t \in Times :
        (/\ ret.op = "import_from_auth_json"
         /\ ret.read = Ok(ToJson(create_auth_json(a, t))))
        => (ret.result.ok /\ ret.result.v.auth_data = a.auth_data)

\* C6 witness: the file written by a successful switch to a ChatGPT account
\* that has an account_id was imported back
C6_Witness ==
    /\ ret.op = "import_from_auth_json"
    /\ lastOk.some
    /\ lastOk.v.tokens.some
    /\ lastOk.v.tokens.v.account_id.some
    /\ ret.read = Ok(ToJson(lastOk.v))
    /\ ret.result.ok
    /\ ret.result.v.auth_data.tag = "ChatGPT"

\* C7: importing a parsed document with neither credential fails with the
\* format error; with both it gives an ApiKey account; with tokens alone a
\* ChatGPT account.
C7_ImportByContent ==
    (ret.op = "import_from_auth_json" /\ ret.read.ok /\ FromJson(ret.read.v).ok) =>
        LET d == FromJson(ret.read.v).v
        IN  /\ (~d.openai_api_key.some /\ ~d.tokens.some) =>
                  ret.result = Err("auth.json contains neither API key nor tokens")
            /\ (d.openai_api_key.some /\ d.tokens.some) =>
                  /\ ret.result.ok
                  /\ ret.result.v.auth_data = ApiKeyAuth(d.openai_api_key.v)
            /\ (~d.openai_api_key.some /\ d.tokens.some) =>
                  /\ ret.result.ok
                  /\ ret.result.v.auth_data.tag = "ChatGPT"
                  /\ ret.result.v.auth_data.id_token = d.tokens.v.id_token

\* C7 witness: a document with both credentials was imported as an ApiKey account
C7_Witness ==
    /\ ret.op = "import_from_auth_json"
    /\ ret.read = Ok(BothText)
    /\ ret.result.ok
    /\ ret.result.v.auth_data = ApiKeyAuth("sk-ext")

\* the ceiling of s / 60 for s >= 0
Ceil60(s) == (s \div 60) + (IF s % 60 = 0 THEN 0 ELSE 1)
\* what C8 asks of one window and the minutes reported for it
MinutesAsClaimed(window, minutes) ==
    /\ (window.some /\ window.v.limit_window_seconds.some
            /\ window.v.limit_window_seconds.v >= 0)
          => minutes = Some(Ceil60(window.v.limit_window_seconds.v))
    /\ (~window.some \/ ~window.v.limit_window_seconds.some) => minutes = None

\* C8: for every window length s >= 0 the minutes reported are the ceiling of
\* s / 60, for the primary and the secondary window, up to the largest s; a
\* window without a length, or no window, leaves the minutes absent.
C8_MinutesAreCeiling ==
    convOut.some =>
        LET limits == IF convIn.rate_limit.some
                      THEN convIn.rate_limit.v
                      ELSE RateLimitDetails(None, None)
        IN  /\ MinutesAsClaimed(limits.primary_window, convOut.v.primary_window_minutes)
            /\ MinutesAsClaimed(limits.secondary_window, convOut.v.secondary_window_minutes)

\* C8 witness: 61 seconds became 2 minutes beside the largest window length
C8_Witness ==
    /\ convOut.some
    /\ convIn.rate_limit.some
    /\ convIn.rate_limit.v.primary_window = Some(RateLimitWindow(10, Some(61), None))
    /\ convIn.rate_limit.v.secondary_window = Some(RateLimitWindow(10, Some(I32Max), None))
    /\ convOut.v.primary_window_minutes = Some(2)
    /\ convOut.v.secondary_window_minutes = Some(35791395)

\* C9: in a batch, every account whose endpoint is not hung gets its slot
\* filled whatever the others do, and from some point on the only entries
\* still pending are those of hung accounts waiting for their response.
C9_HungDoesNotBlockOthers ==
    /\ \A i \in 1..MaxAccounts :
          (cmd = "refresh_all" /\ i \in DOMAIN store /\ i \notin hung)
             ~> (Done(i) /\ slots[i].some)
    /\ (cmd = "refresh_all")
          ~> (\A i \in DOMAIN store :
                 slots[i].some \/ (i \in hung /\ fut[i].pc = "send"))
    /\ [][\A i \in DOMAIN store :
             (i \in hung /\ fut[i].pc = "send") => fut'[i].pc = "send"]_vars

\* C9 witness: an account after the hung one completed with a parsed payload
C9_Witness ==
    /\ cmd = "refresh_all"
    /\ \E i, j \in DOMAIN store :
          /\ i < j
          /\ i \in hung
          /\ fut[i].pc = "send"
          /\ j \notin hung
          /\ fut[j].pc = "done"
          /\ fut[j].cause = "ok"
          /\ slots[j].some

\* C10 as stated: between calls, the file holds exactly the document of the
\* last switch that returned Ok, and read_current_auth returns it.
C10_FileHoldsLastSuccessfulSwitch ==
    (pc = "idle" /\ lastOk.some) =>
        /\ fileExists
        /\ fileContent = ToJson(lastOk.v)
        /\ read_current_auth = Ok(Some(lastOk.v))

====
